---------------------------- MODULE Spec2Model ----------------------------
(***************************************************************************)
(* Model of the stateful demonstrations of the repository:                 *)
(*   - iterator_generator/generator_example.py: the generator              *)
(*     coroutine_echo driven with next(), send(), throw() and close();     *)
(*   - iterator_generator/iterator_example.py: CountUpIterator and         *)
(*     CountUpIterable.                                                    *)
(***************************************************************************)
EXTENDS Integers, Sequences, FiniteSets, TLC

(***************************************************************************)
(* Bounds of the model.                                                    *)
(***************************************************************************)
\* number of calls the driver makes on one generator object
MaxCalls == 4

\* max_inclusive ranges over -1..MaxMax
MaxMax == 3

\* number of CountUpIterator objects alive, and of references held
MaxObjs == 2

\* number of full passes over the iterable
MaxPasses == 2

\* retry(times) is built for times in 0..MaxTimes
MaxTimes == 3

\* number of invocations of one wrapper
MaxInvokes == 2

(***************************************************************************)
(* Python values.  A value is a record [tag, s]: tag is the type, s the    *)
(* text of a str (or the message of an exception).                         *)
(***************************************************************************)
PyNone == [tag |-> "NoneType", s |-> ""]

Unbound == [tag |-> "unbound", s |-> ""]

Str(t) == [tag |-> "str", s |-> t]

GeneratorExit == [tag |-> "GeneratorExit", s |-> ""]

RuntimeError == [tag |-> "RuntimeError", s |-> "boom"]

\* the non-None values the driver sends: 'A' and 'B' as in demo_send_close,
\* and the empty string, which is falsy but is not None
Payloads == {Str("A"), Str("B"), Str("")}

SendValues == Payloads \cup {PyNone}

\* str(v) as the f-string '{val}' computes it
Format(v) == IF v.tag = "NoneType" THEN "None" ELSE v.s

(***************************************************************************)
(* What a call on the generator object gives to the driver.                *)
(***************************************************************************)
Yielded(v) == [kind |-> "yield", value |-> v]

StopIteration(v) == [kind |-> "StopIteration", value |-> v]

TypeError == [kind |-> "TypeError", value |-> Str("can't send non-None value to a just-started generator")]

Raised(e) == [kind |-> "raise", value |-> e]

Returned(v) == [kind |-> "return", value |-> v]

ClosedLine == "coroutine_echo: generator closed"

(***************************************************************************)
(* The generator object g of demo_send_close.                              *)
(*   gstate : where the frame of coroutine_echo stands                     *)
(*            "NotStarted" created, body not entered                       *)
(*            "Ready"      suspended at  val = yield 'ready'       (l.49)  *)
(*            "Active"     suspended at  val = yield f'got {val}'  (l.53)  *)
(*            "Closed"     the frame has finished                          *)
(*   val     : the local variable val                                      *)
(*   printed : the lines the body has printed (the finally block)          *)
(*   trace   : the calls the driver has made, each with its outcome        *)
(* The iterator objects of iterator_example.py:                            *)
(*   heap    : the CountUpIterator objects, heap[i] = [max, current]       *)
(*   itmax   : the field max of the CountUpIterable object                 *)
(*   handles : the references the driver holds, handles[h] an index of heap*)
(*   got     : got[i] the values object heap[i] has returned, in order     *)
(*   itlast  : the latest call the driver made on the iterators, with its  *)
(*             outcome                                                     *)
(*   passes  : the number of full passes  list(iterable)  made so far      *)
(* The wrapper built by retry(times) in collections/callable_examples.py:  *)
(*   rtimes   : the argument times of retry                                *)
(*   rpc      : where the wrapper stands: "idle" not invoked, "loop" in    *)
(*              for i in range(times), "done" returned or raised           *)
(*   ri       : the number of iterations of the loop started               *)
(*   last_exc : the local variable last_exc                                *)
(*   rcalls   : the outcomes of the calls of fn made by this invocation    *)
(*   rresult  : how the invocation ended                                   *)
(*   rinvokes : the number of invocations made                             *)
(***************************************************************************)
VARIABLES gstate, val, printed, trace, heap, itmax, handles, got, itlast,
          passes, rtimes, rpc, ri, last_exc, rcalls, rresult, rinvokes

echoVars == <<gstate, val, printed, trace>>

iterVars == <<heap, itmax, handles, got, itlast, passes>>

retryVars == <<rtimes, rpc, ri, last_exc, rcalls, rresult, rinvokes>>

vars == <<gstate, val, printed, trace, heap, itmax, handles, got, itlast,
          passes, rtimes, rpc, ri, last_exc, rcalls, rresult, rinvokes>>

\* the generator object as one value
G == [gstate |-> gstate, val |-> val, printed |-> printed]

----------------------------------------------------------------------------
(***************************************************************************)
(* The body of coroutine_echo, run from where the frame stands until the   *)
(* next yield, the return or an exception leaving it.                      *)
(*   how = "send"  : the frame is resumed with the value sent              *)
(*   how = "throw" : the exception sent is raised at the yield             *)
(* The result is the generator after the run and what the driver gets.     *)
(***************************************************************************)
\* variant: the sentinel return leaves the frame without the finally block
coroutine_echo_nofinally(g, how, sent) ==
    IF g.gstate = "NotStarted"
    THEN [gstate |-> "Ready", val |-> g.val, printed |-> g.printed,
          result |-> Yielded(Str("ready"))]
    ELSE IF how = "throw"
    THEN [gstate |-> "Closed", val |-> g.val,
          printed |-> Append(g.printed, ClosedLine),
          result |-> Raised(sent)]
    ELSE IF sent = PyNone
         THEN [gstate |-> "Closed", val |-> sent, printed |-> g.printed,
               result |-> StopIteration(Str("closed"))]
         ELSE [gstate |-> "Active", val |-> sent, printed |-> g.printed,
               result |-> Yielded(Str("got " \o Format(sent)))]

\* variant: the echo is formatted from val before the value sent is stored
coroutine_echo_stale(g, how, sent) ==
    IF g.gstate = "NotStarted"
    THEN [gstate |-> "Ready", val |-> g.val, printed |-> g.printed,
          result |-> Yielded(Str("ready"))]
    ELSE IF how = "throw"
    THEN [gstate |-> "Closed", val |-> g.val,
          printed |-> Append(g.printed, ClosedLine),
          result |-> Raised(sent)]
    ELSE IF sent = PyNone
         THEN [gstate |-> "Closed", val |-> sent,
               printed |-> Append(g.printed, ClosedLine),
               result |-> StopIteration(Str("closed"))]
         ELSE [gstate |-> "Active", val |-> sent, printed |-> g.printed,
               result |-> Yielded(Str("got " \o Format(g.val)))]

\* variant: no  yield 'ready'  before the loop, val starts as None
coroutine_echo_noready(g, how, sent) ==
    IF how = "throw" /\ g.gstate # "NotStarted"
    THEN [gstate |-> "Closed", val |-> g.val,
          printed |-> Append(g.printed, ClosedLine),
          result |-> Raised(sent)]
    ELSE IF sent = PyNone
         THEN [gstate |-> "Closed", val |-> sent,
               printed |-> Append(g.printed, ClosedLine),
               result |-> StopIteration(Str("closed"))]
         ELSE [gstate |-> "Active", val |-> sent, printed |-> g.printed,
               result |-> Yielded(Str("got " \o Format(sent)))]

coroutine_echo(g, how, sent) ==
    IF g.gstate = "NotStarted"
    THEN \* try: ... yield 'ready'
         [gstate |-> "Ready", val |-> g.val, printed |-> g.printed,
          result |-> Yielded(Str("ready"))]
    ELSE IF how = "throw"
    THEN \* no except clause: finally runs, the exception leaves the frame
         [gstate |-> "Closed", val |-> g.val,
          printed |-> Append(g.printed, ClosedLine),
          result |-> Raised(sent)]
    ELSE \* val = yield ...; while True: if val is None: return 'closed'
         IF sent = PyNone
         THEN [gstate |-> "Closed", val |-> sent,
               printed |-> Append(g.printed, ClosedLine),
               result |-> StopIteration(Str("closed"))]
         ELSE \* val = yield f'got {val}'
              [gstate |-> "Active", val |-> sent, printed |-> g.printed,
               result |-> Yielded(Str("got " \o Format(sent)))]

\* variant: a finished frame is resumed again
gen_send_noclosedcheck(g, v) ==
    IF g.gstate = "NotStarted" /\ v # PyNone
    THEN [gstate |-> g.gstate, val |-> g.val, printed |-> g.printed,
          result |-> TypeError]
    ELSE coroutine_echo(g, "send", v)

\* variant: a value sent to a just-started generator is dropped
gen_send_nojuststarted(g, v) ==
    IF g.gstate = "Closed"
    THEN [gstate |-> g.gstate, val |-> g.val, printed |-> g.printed,
          result |-> StopIteration(PyNone)]
    ELSE coroutine_echo(g, "send", v)

\* g.send(v)
gen_send(g, v) ==
    IF g.gstate = "Closed"
    THEN [gstate |-> g.gstate, val |-> g.val, printed |-> g.printed,
          result |-> StopIteration(PyNone)]
    ELSE IF g.gstate = "NotStarted" /\ v # PyNone
    THEN [gstate |-> g.gstate, val |-> g.val, printed |-> g.printed,
          result |-> TypeError]
    ELSE coroutine_echo(g, "send", v)

\* variant: next(g) resumes the frame with an empty string
gen_next_empty(g) ==
    IF g.gstate = "NotStarted" THEN gen_send(g, PyNone) ELSE gen_send(g, Str(""))

\* next(g): the frame is resumed with None
gen_next(g) == gen_send(g, PyNone)

\* g.throw(e)
gen_throw(g, e) ==
    IF g.gstate = "Closed"
    THEN [gstate |-> g.gstate, val |-> g.val, printed |-> g.printed,
          result |-> Raised(e)]
    ELSE IF g.gstate = "NotStarted"
    THEN \* the try block was never entered: the frame is dropped
         [gstate |-> "Closed", val |-> g.val, printed |-> g.printed,
          result |-> Raised(e)]
    ELSE coroutine_echo(g, "throw", e)

\* variant: close() drops the frame without raising GeneratorExit in it
gen_close_drop(g) ==
    [gstate |-> "Closed", val |-> g.val, printed |-> g.printed,
     result |-> Returned(PyNone)]

\* g.close(): GeneratorExit is raised at the yield and swallowed by close()
gen_close(g) ==
    IF g.gstate = "Closed"
    THEN [gstate |-> g.gstate, val |-> g.val, printed |-> g.printed,
          result |-> Returned(PyNone)]
    ELSE LET r == gen_throw(g, GeneratorExit)
         IN  [gstate |-> r.gstate, val |-> r.val, printed |-> r.printed,
              result |-> Returned(PyNone)]

----------------------------------------------------------------------------
(***************************************************************************)
(* The driver's calls on g.                                                *)
(***************************************************************************)
Call(op, arg, r) ==
    /\ Len(trace) < MaxCalls
    /\ gstate' = r.gstate
    /\ val' = r.val
    /\ printed' = r.printed
    /\ trace' = Append(trace, [op |-> op, arg |-> arg, result |-> r.result])
    /\ UNCHANGED iterVars
    /\ UNCHANGED retryVars

Advance == Call("next", PyNone, gen_next(G))

Send == \E v \in SendValues : Call("send", v, gen_send(G, v))

Throw == Call("throw", RuntimeError, gen_throw(G, RuntimeError))

Close == Call("close", PyNone, gen_close(G))

InitEcho ==
    /\ gstate = "NotStarted"
    /\ val = Unbound
    /\ printed = << >>
    /\ trace = << >>

NoCall == [op |-> "none", h |-> 0, kind |-> "none", value |-> 0,
           values |-> << >>]

InitIterIdle ==
    /\ heap = << >>
    /\ itmax = 0
    /\ handles = << >>
    /\ got = << >>
    /\ itlast = NoCall
    /\ passes = 0

\* last_exc = None; an exception object is its type and the call that raised it
NoExc == [type |-> "None", id |-> 0]

NoResult == [kind |-> "none", v |-> 0, exc |-> NoExc, by |-> "none"]

InitRetryIdle ==
    /\ rtimes = 0
    /\ rpc = "idle"
    /\ ri = 0
    /\ last_exc = NoExc
    /\ rcalls = << >>
    /\ rresult = NoResult
    /\ rinvokes = 0

Init == InitEcho /\ InitIterIdle /\ InitRetryIdle

Next == Advance \/ Send \/ Throw \/ Close

Spec == Init /\ [][Next]_vars

----------------------------------------------------------------------------
(***************************************************************************)
(* iterator_example.py: CountUpIterator and CountUpIterable.               *)
(***************************************************************************)
MaxRange == (0 - 1)..MaxMax

MaxHandles == MaxObjs

\* CountUpIterator.__init__
CountUpIterator_init(m) == [max |-> m, current |-> 0]

\* CountUpIterator.__iter__ on the object heap[id]: return self
CountUpIterator_iter(id) == id

\* variant: the test is  current > max
CountUpIterator_next_offbyone(o) ==
    IF o.current > o.max
    THEN [obj |-> o, kind |-> "StopIteration", value |-> 0]
    ELSE [obj |-> [o EXCEPT !.current = o.current + 1], kind |-> "return",
          value |-> o.current + 1]

\* CountUpIterator.__next__: the object after the call and what it gives
CountUpIterator_next(o) ==
    IF o.current >= o.max
    THEN [obj |-> o, kind |-> "StopIteration", value |-> 0]
    ELSE [obj |-> [o EXCEPT !.current = o.current + 1], kind |-> "return",
          value |-> o.current + 1]

\* variant: the iterable hands out the iterator it made last, if there is one
CountUpIterable_iter_shared(hp, m) ==
    IF Len(hp) > 0
    THEN [heap |-> hp, id |-> Len(hp)]
    ELSE [heap |-> Append(hp, CountUpIterator_init(m)), id |-> Len(hp) + 1]

\* CountUpIterable.__iter__: a new CountUpIterator(self.max) on the heap
CountUpIterable_iter(hp, m) ==
    [heap |-> Append(hp, CountUpIterator_init(m)), id |-> Len(hp) + 1]

\* what  for v in it  and  list(it)  do with the iterator: __next__ until
\* StopIteration
RECURSIVE Drain(_)
Drain(o) ==
    LET r == CountUpIterator_next(o)
    IN  IF r.kind = "StopIteration"
        THEN [obj |-> r.obj, values |-> << >>]
        ELSE LET d == Drain(r.obj)
             IN  [obj |-> d.obj, values |-> <<r.value>> \o d.values]

\* it = CountUpIterator(m)
NewIterator ==
    \E m \in MaxRange :
        /\ Len(heap) < MaxObjs /\ Len(handles) < MaxHandles
        /\ heap' = Append(heap, CountUpIterator_init(m))
        /\ got' = Append(got, << >>)
        /\ handles' = Append(handles, Len(heap) + 1)
        /\ itlast' = [NoCall EXCEPT !.op = "new", !.h = Len(handles) + 1]
        /\ UNCHANGED <<itmax, passes>>
        /\ UNCHANGED echoVars
        /\ UNCHANGED retryVars

\* iter(iterable)
IterOfIterable ==
    /\ Len(heap) < MaxObjs /\ Len(handles) < MaxHandles
    /\ LET r == CountUpIterable_iter(heap, itmax)
       IN  /\ heap' = r.heap
           /\ got' = IF r.id > Len(heap) THEN Append(got, << >>) ELSE got
           /\ handles' = Append(handles, r.id)
    /\ itlast' = [NoCall EXCEPT !.op = "iter(iterable)", !.h = Len(handles) + 1]
    /\ UNCHANGED <<itmax, passes>>
    /\ UNCHANGED echoVars
    /\ UNCHANGED retryVars

\* iter(it) on the iterator behind reference h
IterOfIterator ==
    \E h \in 1..Len(handles) :
        /\ Len(handles) < MaxHandles
        /\ handles' = Append(handles, CountUpIterator_iter(handles[h]))
        /\ itlast' = [NoCall EXCEPT !.op = "iter(it)", !.h = h]
        /\ UNCHANGED <<heap, got, itmax, passes>>
        /\ UNCHANGED echoVars
        /\ UNCHANGED retryVars

\* next(it) through reference h
NextCall ==
    \E h \in 1..Len(handles) :
        LET i == handles[h]
            r == CountUpIterator_next(heap[i])
        IN  /\ heap' = [heap EXCEPT ![i] = r.obj]
            /\ got' = IF r.kind = "return"
                      THEN [got EXCEPT ![i] = Append(got[i], r.value)]
                      ELSE got
            /\ itlast' = [NoCall EXCEPT !.op = "next", !.h = h,
                                        !.kind = r.kind, !.value = r.value]
            /\ UNCHANGED <<itmax, handles, passes>>
            /\ UNCHANGED echoVars
            /\ UNCHANGED retryVars

\* for v in it: through reference h; the loop calls iter(it), then __next__
\* until StopIteration
ForLoop ==
    \E h \in 1..Len(handles) :
        LET i == CountUpIterator_iter(handles[h])
            d == Drain(heap[i])
        IN  /\ heap' = [heap EXCEPT ![i] = d.obj]
            /\ got' = [got EXCEPT ![i] = got[i] \o d.values]
            /\ itlast' = [NoCall EXCEPT !.op = "for", !.h = h,
                                        !.values = d.values]
            /\ UNCHANGED <<itmax, handles, passes>>
            /\ UNCHANGED echoVars
            /\ UNCHANGED retryVars

\* list(iterable): iter(iterable), then __next__ until StopIteration.  The
\* iterator made for the pass is dropped with the pass: nothing refers to it.
ListIterable ==
    /\ passes < MaxPasses
    /\ LET r == CountUpIterable_iter(heap, itmax)
           d == Drain(r.heap[r.id])
       IN  /\ heap' = IF r.id > Len(heap)
                      THEN heap
                      ELSE [heap EXCEPT ![r.id] = d.obj]
           /\ got' = IF r.id > Len(heap)
                     THEN got
                     ELSE [got EXCEPT ![r.id] = got[r.id] \o d.values]
           /\ itlast' = [NoCall EXCEPT !.op = "list", !.values = d.values]
    /\ passes' = passes + 1
    /\ UNCHANGED <<itmax, handles>>
    /\ UNCHANGED echoVars
    /\ UNCHANGED retryVars

\* iterable = CountUpIterable(m), for any m
InitIter ==
    /\ heap = << >>
    /\ itmax \in MaxRange
    /\ handles = << >>
    /\ got = << >>
    /\ itlast = NoCall
    /\ passes = 0

NextIter ==
    \/ NewIterator
    \/ IterOfIterable
    \/ IterOfIterator
    \/ NextCall
    \/ ForLoop
    \/ ListIterable

InitIterSpec == InitEcho /\ InitIter /\ InitRetryIdle

SpecIter == InitIterSpec /\ [][NextIter]_vars

----------------------------------------------------------------------------
(***************************************************************************)
(* Vocabulary of the properties of the echo session.                       *)
(***************************************************************************)
\* the step is a call op of the driver
Called(op) == Len(trace') = Len(trace) + 1 /\ trace'[Len(trace')].op = op

\* the argument and the outcome of the latest call
Arg == trace[Len(trace)].arg

Outcome == trace[Len(trace)].result

\* the session has been primed: some call produced the readiness marker
Primed == \E i \in 1..Len(trace) : trace[i].result = Yielded(Str("ready"))

\* the failure of an operation invoked in a state that forbids it
InvalidStateError(r) == r.kind = "TypeError"

\* C1: once the session is Closed, every later send(v), for any v including
\* None, and every later next() reports StopIteration and produces no value.
C1_ExhaustedAfterClosed ==
    [][(gstate = "Closed" /\ (Called("next") \/ Called("send")))
          => (Outcome' = StopIteration(PyNone) /\ Outcome'.kind # "yield")]_vars

\* the session was closed by the sentinel, then a payload was sent and next()
\* was called, both reporting StopIteration
C1_Witness ==
    /\ Len(trace) >= 4
    /\ trace[2].result = StopIteration(Str("closed"))
    /\ trace[3].op = "send" /\ trace[3].arg \in Payloads
    /\ trace[3].result.kind = "StopIteration"
    /\ trace[4].op = "next" /\ trace[4].result.kind = "StopIteration"

\* C2: send(None) on a Ready or Active session moves it to Closed, reports
\* StopIteration carrying 'closed', and the finally block has then printed its
\* line exactly once; no later call prints it again.
C2_SentinelCloses ==
    /\ [][(gstate \in {"Ready", "Active"} /\ Called("send") /\ Arg' = PyNone)
            => /\ gstate' = "Closed"
               /\ Outcome' = StopIteration(Str("closed"))
               /\ printed' = <<ClosedLine>>]_vars
    /\ [][Len(printed) >= 1 => printed' = printed]_vars

\* an Active session was closed by the sentinel, then close() was called
C2_Witness ==
    /\ Len(trace) >= 4
    /\ trace[2].result.kind = "yield" /\ trace[2].op = "send"
    /\ trace[3].op = "send" /\ trace[3].arg = PyNone
    /\ trace[3].result = StopIteration(Str("closed"))
    /\ trace[4].op = "close"
    /\ Len(printed) = 1

\* C3: on a primed session send(v) with v not None returns 'got v' for the v
\* of that call, stores v and leaves the session Active.
C3_EchoOfSent ==
    [][(gstate \in {"Ready", "Active"} /\ Called("send") /\ Arg' \in Payloads)
          => /\ Outcome' = Yielded(Str("got " \o Arg'.s))
             /\ gstate' = "Active"
             /\ val' = Arg'
             /\ printed' = printed]_vars

\* three sends of different payloads in a row, the last echoing its own value
C3_Witness ==
    /\ Len(trace) >= 4
    /\ trace[2].op = "send" /\ trace[2].arg = Str("A")
    /\ trace[3].op = "send" /\ trace[3].arg = Str("")
    /\ trace[4].op = "send" /\ trace[4].arg = Str("B")
    /\ trace[4].result = Yielded(Str("got B"))
    /\ gstate = "Active"

\* C4 as stated: send(input) on a NotStarted session fails with
\* InvalidStateError for every input, None included, and does not advance it.
C4_Original ==
    [][(gstate = "NotStarted" /\ Called("send"))
          => (InvalidStateError(Outcome') /\ gstate' = "NotStarted")]_vars

\* C4 (amended): send(v) on a NotStarted session fails with TypeError for
\* every v that is not None and leaves the session untouched; send(None) on a
\* NotStarted session is the priming step: it returns 'ready' and moves the
\* session to Ready.
C4_SendBeforePrime ==
    [][(gstate = "NotStarted" /\ Called("send"))
          => IF Arg' # PyNone
             THEN /\ Outcome' = TypeError
                  /\ UNCHANGED <<gstate, val, printed>>
             ELSE /\ Outcome' = Yielded(Str("ready"))
                  /\ gstate' = "Ready"
                  /\ UNCHANGED <<val, printed>>]_vars

\* a payload was refused on the new session, then send(None) primed it
C4_Witness ==
    /\ Len(trace) >= 2
    /\ trace[1].op = "send" /\ trace[1].arg \in Payloads
    /\ trace[1].result = TypeError
    /\ trace[2].op = "send" /\ trace[2].arg = PyNone
    /\ trace[2].result = Yielded(Str("ready"))

\* C5 as stated: next() on a Ready, Active or Closed session fails with
\* InvalidStateError and leaves the state and the finalization untouched.
C5_Original ==
    [][(gstate # "NotStarted" /\ Called("next"))
          => (InvalidStateError(Outcome') /\ UNCHANGED <<gstate, printed>>)]_vars

\* C5 (amended): next() never fails with an error.  On a Closed session it
\* reports StopIteration and leaves the session untouched; on a Ready or
\* Active session it is send(None): the session moves to Closed, the finally
\* block runs once and the call reports StopIteration carrying 'closed'.
C5_AdvanceAfterPrime ==
    [][(gstate # "NotStarted" /\ Called("next"))
          => IF gstate = "Closed"
             THEN /\ Outcome' = StopIteration(PyNone)
                  /\ UNCHANGED <<gstate, val, printed>>
             ELSE /\ Outcome' = StopIteration(Str("closed"))
                  /\ gstate' = "Closed"
                  /\ printed' = Append(printed, ClosedLine)]_vars

\* a second next() closed an Active session and a third found it Closed
C5_Witness ==
    /\ Len(trace) >= 4
    /\ trace[1].op = "next"
    /\ trace[2].op = "send" /\ trace[2].result.kind = "yield"
    /\ trace[3].op = "next" /\ trace[3].result = StopIteration(Str("closed"))
    /\ trace[4].op = "next" /\ trace[4].result = StopIteration(PyNone)

\* C6 as stated: close() from NotStarted, Ready or Active ends in Closed with
\* the finally block run exactly once, and a Closed session has always run
\* it exactly once.
C6_Original ==
    /\ [][(gstate # "Closed" /\ Called("close"))
          => (gstate' = "Closed" /\ Len(printed') = 1)]_vars
    /\ [](gstate = "Closed" => Len(printed) = 1)

\* C6 (amended): close() from Ready or Active runs the finally block exactly
\* once and ends in Closed; close() from NotStarted ends in Closed without
\* running it, the try block never having been entered.  Over every exit path
\* the finally block runs at most once, never before the session is Closed,
\* and exactly once if and only if the session had been primed.
C6_CloseFinalizes ==
    /\ [][(gstate # "Closed" /\ Called("close"))
            => /\ gstate' = "Closed"
               /\ Outcome' = Returned(PyNone)
               /\ printed' = IF gstate = "NotStarted"
                             THEN printed
                             ELSE Append(printed, ClosedLine)]_vars
    /\ [](Len(printed) <= 1)
    /\ [](gstate # "Closed" => Len(printed) = 0)
    /\ [](gstate = "Closed" => (Len(printed) = 1 <=> Primed))

\* an Active session was abandoned with close(), and close() was repeated
C6_Witness ==
    /\ Len(trace) >= 4
    /\ trace[2].op = "send" /\ trace[2].result.kind = "yield"
    /\ trace[3].op = "close"
    /\ trace[4].op = "close"
    /\ gstate = "Closed"
    /\ Len(printed) = 1

\* C7: Closed is terminal: no call changes the state of a Closed session.
C7_ClosedTerminal == [][gstate = "Closed" => gstate' = "Closed"]_vars

\* a session closed by its first call has then been driven with next(),
\* send() of a payload and throw()
C7_Witness ==
    /\ Len(trace) >= 4
    /\ trace[1].op = "close"
    /\ {trace[i].op : i \in 2..4} = {"next", "send", "throw"}
    /\ \E i \in 2..4 : trace[i].op = "send" /\ trace[i].arg \in Payloads
    /\ gstate = "Closed"

----------------------------------------------------------------------------
(***************************************************************************)
(* Vocabulary of the properties of the iterators.                          *)
(***************************************************************************)
\* the sequence 1, 2, ..., k (empty when k <= 0)
UpTo(k) == [j \in 1..k |-> j]

\* the object the latest call went to, as it was before the call
Target == heap[handles[itlast'.h]]

\* C9: CountUpIterator(max) counts from 1 to max: every object has returned
\* exactly 1..current in that order, 0 <= current, current <= max when
\* max >= 0, and nothing was returned when max <= 0; __next__ returns
\* current + 1 while current < max and afterwards raises StopIteration and
\* changes nothing; a for-loop started at current = k yields k+1..max.
C9_CountUp ==
    /\ [](\A i \in 1..Len(heap) :
            /\ 0 <= heap[i].current
            /\ heap[i].max >= 0 => heap[i].current <= heap[i].max
            /\ heap[i].max <= 0 => heap[i].current = 0
            /\ got[i] = UpTo(heap[i].current))
    /\ [][itlast'.op = "next"
            => IF Target.current < Target.max
               THEN /\ itlast'.kind = "return"
                    /\ itlast'.value = Target.current + 1
                    /\ heap'[handles[itlast'.h]].current = Target.current + 1
               ELSE /\ itlast'.kind = "StopIteration"
                    /\ UNCHANGED <<heap, got>>]_vars
    /\ [][itlast'.op = "for"
            => /\ itlast'.values =
                    [j \in 1..(Target.max - Target.current) |->
                        Target.current + j]
               /\ Target.max >= Target.current
                    => heap'[handles[itlast'.h]].current = Target.max]_vars

\* after two manual next() calls on CountUpIterator(3) the for-loop gave 3
C9_Witness ==
    /\ itlast.op = "for"
    /\ itlast.values = <<3>>
    /\ heap[handles[itlast.h]] = [max |-> 3, current |-> 3]
    /\ got[handles[itlast.h]] = <<1, 2, 3>>

\* C10: iter(iterable) makes a new CountUpIterator at position 0 and leaves
\* every other iterator alone, so every pass list(iterable) yields 1..max
\* whatever was done before; next() and for through one iterator change no
\* other iterator; iter(it) on a CountUpIterator gives the same object.
C10_FreshIterator ==
    /\ [][itlast'.op = "list"
            => /\ itlast'.values = UpTo(itmax)
               /\ UNCHANGED <<heap, got>>]_vars
    /\ [][itlast'.op = "iter(iterable)"
            => LET id == handles'[Len(handles')]
               IN  /\ id \notin {handles[h] : h \in 1..Len(handles)}
                   /\ id \notin 1..Len(heap)
                   /\ heap'[id] = [max |-> itmax, current |-> 0]
                   /\ \A i \in 1..Len(heap) :
                        heap'[i] = heap[i] /\ got'[i] = got[i]]_vars
    /\ [][itlast'.op \in {"next", "for"}
            => \A i \in 1..Len(heap) :
                 i # handles[itlast'.h]
                    => heap'[i] = heap[i] /\ got'[i] = got[i]]_vars
    /\ [][itlast'.op = "iter(it)"
            => /\ handles'[Len(handles')] = handles[itlast'.h]
               /\ UNCHANGED <<heap, got>>]_vars

\* two iterators of CountUpIterable(3) stand at different positions and the
\* second full pass still gave 1, 2, 3
C10_Witness ==
    /\ itmax = 3
    /\ Len(handles) = 2 /\ handles[1] # handles[2]
    /\ heap[handles[1]] = [max |-> 3, current |-> 2]
    /\ heap[handles[2]] = [max |-> 3, current |-> 1]
    /\ passes = 2
    /\ itlast.op = "list" /\ itlast.values = <<1, 2, 3>>

----------------------------------------------------------------------------
(***************************************************************************)
(* collections/callable_examples.py: the wrapper built by retry(times)     *)
(* around a callable fn.  fn is any callable: each call of it returns a    *)
(* value, raises an Exception, or raises a BaseException that is not an    *)
(* Exception.  Every raise makes a new exception object, told apart by the *)
(* number of the call that raised it.                                      *)
(***************************************************************************)
\* what the k-th call of fn can do (flaky: return x * 10, or RuntimeError)
FnOutcomes(k) ==
    {[kind |-> "return", v |-> x, exc |-> NoExc] : x \in {0, 30}}
    \cup {[kind |-> "Exception", v |-> 0, exc |-> [type |-> t, id |-> k]] :
            t \in {"RuntimeError", "ValueError"}}
    \cup {[kind |-> "BaseException", v |-> 0,
           exc |-> [type |-> "KeyboardInterrupt", id |-> k]]}

\* for i in range(times): there is an iteration after i of them
range_has(i, times) == i < times

\* variant: the handler keeps the first exception
except_handler_first(last, e) == IF last = NoExc THEN e ELSE last

\* except Exception as e: last_exc = e
except_handler(last, e) == e

\* raise last_exc: raising None is a TypeError of the wrapper itself
raise_last(last) ==
    IF last = NoExc
    THEN [kind |-> "raise", v |-> 0, exc |-> [type |-> "TypeError", id |-> 0],
          by |-> "wrapper"]
    ELSE [kind |-> "raise", v |-> 0, exc |-> last, by |-> "fn"]

\* wrapper(*args, **kwargs) is invoked: last_exc = None, the loop starts
Invoke ==
    /\ rpc \in {"idle", "done"}
    /\ rinvokes < MaxInvokes
    /\ rpc' = "loop"
    /\ ri' = 0
    /\ last_exc' = NoExc
    /\ rcalls' = << >>
    /\ rresult' = NoResult
    /\ rinvokes' = rinvokes + 1
    /\ UNCHANGED rtimes
    /\ UNCHANGED <<echoVars, iterVars>>

\* one iteration: try: return fn(*args, **kwargs) / except Exception as e
CallFn ==
    /\ rpc = "loop"
    /\ range_has(ri, rtimes)
    /\ \E o \in FnOutcomes(ri + 1) :
        /\ rcalls' = Append(rcalls, o)
        /\ ri' = ri + 1
        /\ IF o.kind = "return"
           THEN /\ rresult' = [kind |-> "return", v |-> o.v, exc |-> NoExc,
                               by |-> "fn"]
                /\ rpc' = "done"
                /\ UNCHANGED last_exc
           ELSE IF o.kind = "Exception"
           THEN /\ last_exc' = except_handler(last_exc, o.exc)
                /\ UNCHANGED <<rpc, rresult>>
           ELSE /\ rresult' = [kind |-> "raise", v |-> 0, exc |-> o.exc,
                               by |-> "fn"]
                /\ rpc' = "done"
                /\ UNCHANGED last_exc
    /\ UNCHANGED <<rtimes, rinvokes>>
    /\ UNCHANGED <<echoVars, iterVars>>

\* the loop is over: raise last_exc
LoopEnd ==
    /\ rpc = "loop"
    /\ ~ range_has(ri, rtimes)
    /\ rresult' = raise_last(last_exc)
    /\ rpc' = "done"
    /\ UNCHANGED <<rtimes, ri, last_exc, rcalls, rinvokes>>
    /\ UNCHANGED <<echoVars, iterVars>>

\* wrapper = retry(times)(fn), for any times
InitRetry ==
    /\ rtimes \in 0..MaxTimes
    /\ rpc = "idle"
    /\ ri = 0
    /\ last_exc = NoExc
    /\ rcalls = << >>
    /\ rresult = NoResult
    /\ rinvokes = 0

InitRetrySpec == InitEcho /\ InitIterIdle /\ InitRetry

NextRetry == Invoke \/ CallFn \/ LoopEnd

SpecRetry == InitRetrySpec /\ [][NextRetry]_vars

\* C11: an invocation of the wrapper calls fn at most times times and makes
\* no call after one that returned; it returns the result of the first call
\* that returned; when all times calls raised an Exception it raises the
\* exception of the last call; for times >= 1 it ends with a result returned
\* by fn or an exception raised by fn, and while it has not ended a step of
\* it is possible.
C11_Retry ==
    /\ Len(rcalls) <= rtimes /\ Len(rcalls) = ri
    /\ \A k \in 1..(Len(rcalls) - 1) : rcalls[k].kind = "Exception"
    /\ (Len(rcalls) >= 1 /\ rcalls[Len(rcalls)].kind = "return")
          => /\ rpc = "done"
             /\ rresult = [kind |-> "return", v |-> rcalls[Len(rcalls)].v,
                           exc |-> NoExc, by |-> "fn"]
    /\ (rpc = "done" /\ rresult.kind = "return")
          => Len(rcalls) >= 1 /\ rcalls[Len(rcalls)].kind = "return"
    /\ (rpc = "done" /\ rtimes >= 1 /\ Len(rcalls) = rtimes
           /\ \A k \in 1..rtimes : rcalls[k].kind = "Exception")
          => rresult = [kind |-> "raise", v |-> 0, exc |-> rcalls[rtimes].exc,
                        by |-> "fn"]
    /\ (rpc = "done" /\ rtimes >= 1)
          => /\ rresult.by = "fn"
             /\ rresult.kind \in {"return", "raise"}
             /\ rresult.kind = "raise"
                   => rresult.exc = rcalls[Len(rcalls)].exc
    /\ rpc = "loop" => ENABLED (CallFn \/ LoopEnd)

\* retry(3): a second invocation made three calls that raised exceptions of
\* different types, and ended raising the third
C11_Witness ==
    /\ rtimes = 3 /\ rinvokes = 2 /\ rpc = "done"
    /\ Len(rcalls) = 3
    /\ rcalls[1].exc.type = "ValueError"
    /\ rcalls[2].exc.type = "ValueError"
    /\ rcalls[3].exc.type = "RuntimeError"
    /\ rresult.kind = "raise" /\ rresult.exc = [type |-> "RuntimeError", id |-> 3]

=============================================================================
